---- MODULE Spec2Model ----
(***************************************************************************)
(* The Conference page of client/src/pages/Conference.tsx as a state       *)
(* machine: the React component (state, committed render, effects), the    *)
(* WebSocket it opens, the RTCPeerConnection it builds once local media is *)
(* acquired, the inbound message router and the chat send path.            *)
(*                                                                         *)
(* JavaScript runs one event-loop task at a time, so every handler runs to *)
(* its first `await` in one step; what is awaited (getUserMedia, the       *)
(* operations of the peer connection) is kept in `pending` and settled by  *)
(* a later step, which runs the continuation of the awaiting function.     *)
(* A function defined in the component body reads the state of the render  *)
(* that defined it: `rendered` is the latest committed render, and         *)
(* `handlerClosure` the render whose wsMessageHandler was registered on    *)
(* the socket.                                                             *)
(***************************************************************************)
EXTENDS Integers, Sequences, FiniteSets, TLC

\* Bounds of the exploration.
MaxRecv == 2
MaxSends == 1

\* JavaScript values.
Undefined == "undefined"
Null == "null"
WS == "ws"
PC == "pc"
NonText == "<object>"
Unbound == "unbound"

ChatTexts == {"hi", "hey"}
Candidates == {"c1", "c2"}
ValidOffer == "sdpOffer"
ValidAnswer == "sdpAnswer"
LocalAnswer == "localAnswer"
LocalCandidate == "lc1"

\* WSMessage (lines 6-10) as it arrives in event.data.
ChatFrames == {[type |-> "chat", from |-> "bob", data |-> "hi"],
               [type |-> "chat", from |-> Undefined, data |-> "hi"],
               [type |-> "chat", from |-> "bob", data |-> NonText]}
OfferFrames == [type : {"sdp-offer"}, from : {Undefined}, data : {ValidOffer}]
AnswerFrames == [type : {"sdp-answer"}, from : {Undefined}, data : {ValidAnswer}]
IceFrames == [type : {"ice"}, from : {Undefined}, data : Candidates]
ErrorFrames == [type : {"error"}, from : {Undefined}, data : {"room full"}]
OtherFrames == [type : {"ping", "<unparsable>"}, from : {Undefined}, data : {Undefined}]
Frames == ChatFrames \cup OfferFrames \cup AnswerFrames \cup IceFrames \cup ErrorFrames \cup OtherFrames

VARIABLES
    username,        \* searchParams.get("name")
    mounted,         \* the component is mounted
    socketEffectRan, \* the effect of lines 29-53 has run
    effectDep,       \* the value of [socket] the effect of lines 56-85 last ran with
    socket,          \* useState, line 24
    chatMessages,    \* useState, line 25
    chatContent,     \* useState, line 26
    peerConnection,  \* useState, line 27
    rendered,        \* the state read by the functions of the latest committed render
    handlerClosure,  \* the state read by the wsMessageHandler registered as onmessage
    wsState,         \* readyState of the WebSocket
    everOpen,        \* the WebSocket has fired its open event
    sent,            \* frames transmitted on the socket
    discarded,       \* frames handed to send() and dropped by it
    sendAttempts,    \* history of the calls of socket.send
    closeFired,      \* number of runs of onclose
    alerts,          \* alert() calls, in order
    thrown,          \* exceptions and rejections nobody caught
    media,           \* getUserMedia: "idle", "pending", "acquired", "failed"
    pc,              \* the RTCPeerConnection object(s) built by line 64
    pending,         \* awaited operations and queued peer events, oldest first
    received,        \* history of the frames delivered to onmessage
    clicks           \* number of clicks on Send

react == <<username, mounted, socketEffectRan, effectDep, socket, chatMessages, chatContent,
           peerConnection, rendered, handlerClosure>>
wire == <<wsState, everOpen, sent, discarded, sendAttempts, closeFired>>
ui == <<alerts, thrown>>
rtc == <<media, pc, pending>>
vars == <<react, wire, ui, rtc, received, clicks>>

----
\* Helpers.

RemoveAt(s, i) == SubSeq(s, 1, i - 1) \o SubSeq(s, i + 1, Len(s))

\* The check of line 125 without its typeof test.
IsStringAlways(d) == TRUE

\* typeof wsMessage.data === "string" (line 125).
IsString(d) == d \in ChatTexts \cup {"room full"}

\* JSON.parse(event.data) returns (line 35).
Parses(f) == f.type # "<unparsable>"

\* The state a render of the component closes over (lines 24-27).
Snapshot == [socket |-> socket, peerConnection |-> peerConnection, chatContent |-> chatContent]

\* The same bindings read live, as a handler re-registered on every render would.
LiveClosure == [socket |-> socket, peerConnection |-> peerConnection]

\* The bindings read by wsMessageHandler and by the cleanup function: those of
\* the render during which the effect with dependencies [] ran (lines 29-53).
Closure == handlerClosure

\* A new message put at the back of the log.
AppendLast(m, log) == Append(log, m)

\* [newChat, ...prevMessages] (lines 131 and 168).
Prepend(m, log) == <<m>> \o log

\* setX of useState: React drops updates of an unmounted component.
SetState(old, new) == IF mounted THEN new ELSE old

\* The pristine RTCPeerConnection of line 64.
NoPeer == [created |-> 0, remote |-> "none", local |-> "none", signaling |-> "stable",
           candidates |-> <<>>, applied |-> <<>>]

IsPcOp(p) == p.op \in {"setRemoteDescription", "createAnswer", "setLocalDescription", "addIceCandidate"}

\* WebSocket.send(data) by readyState: InvalidStateError while CONNECTING,
\* transmission while OPEN, silent discard while CLOSING or CLOSED.
SendOutcome(ready) ==
    CASE ready = "CONNECTING" -> "threw"
      [] ready = "OPEN" -> "sent"
      [] OTHER -> "discarded"

SocketSend(env) ==
    LET out == SendOutcome(wsState) IN
    /\ sent' = IF out = "sent" THEN Append(sent, env) ELSE sent
    /\ discarded' = IF out = "discarded" THEN Append(discarded, env) ELSE discarded
    /\ thrown' = IF out = "threw" THEN Append(thrown, "InvalidStateError") ELSE thrown
    /\ sendAttempts' = Append(sendAttempts, [type |-> env.type, ready |-> wsState, outcome |-> out])

NoSend == UNCHANGED <<sent, discarded, sendAttempts>>

----
Init ==
    /\ username \in {"alice", Null}
    /\ mounted = TRUE
    /\ socketEffectRan = FALSE
    /\ effectDep = "unrun"
    /\ socket = Undefined
    /\ chatMessages = <<>>
    /\ chatContent = ""
    /\ peerConnection = Null
    /\ rendered = [socket |-> Undefined, peerConnection |-> Null, chatContent |-> ""]
    /\ handlerClosure = [socket |-> Unbound, peerConnection |-> Unbound]
    /\ wsState = "none"
    /\ everOpen = FALSE
    /\ sent = <<>>
    /\ discarded = <<>>
    /\ sendAttempts = <<>>
    /\ closeFired = 0
    /\ alerts = <<>>
    /\ thrown = <<>>
    /\ media = "idle"
    /\ pc = NoPeer
    /\ pending = <<>>
    /\ received = <<>>
    /\ clicks = 0

----
\* React lifecycle.

\* useEffect(..., []) of lines 29-53: create the socket, register onmessage and
\* onclose with the functions of this render, setSocket.
SocketEffect ==
    /\ mounted
    /\ ~socketEffectRan
    /\ socketEffectRan' = TRUE
    /\ wsState' = "CONNECTING"
    /\ handlerClosure' = [socket |-> rendered.socket, peerConnection |-> rendered.peerConnection]
    /\ socket' = SetState(socket, WS)
    /\ UNCHANGED <<username, mounted, effectDep, chatMessages, chatContent, peerConnection, rendered>>
    /\ UNCHANGED <<everOpen, sent, discarded, sendAttempts, closeFired>>
    /\ UNCHANGED <<ui, rtc, received, clicks>>

\* A re-render after a state update: the component body runs again and its
\* functions (sendChat, the effects) close over the new state.
Render ==
    /\ mounted
    /\ rendered # Snapshot
    /\ rendered' = Snapshot
    /\ UNCHANGED <<username, mounted, socketEffectRan, effectDep, socket, chatMessages, chatContent,
                   peerConnection, handlerClosure>>
    /\ UNCHANGED <<wire, ui, rtc, received, clicks>>

\* useEffect(..., [socket]) of lines 56-85, up to its first await (line 60 and
\* getLocalMediaStream up to line 90).
WebRTCEffect ==
    /\ mounted
    /\ socketEffectRan
    /\ effectDep # rendered.socket
    /\ effectDep' = rendered.socket
    /\ IF rendered.socket = Undefined
       THEN UNCHANGED rtc
       ELSE /\ media' = "pending"
            /\ pending' = Append(pending, [op |-> "getUserMedia", arg |-> Undefined, h |-> "setup"])
            /\ UNCHANGED pc
    /\ UNCHANGED <<username, mounted, socketEffectRan, socket, chatMessages, chatContent,
                   peerConnection, rendered, handlerClosure>>
    /\ UNCHANGED <<wire, ui, received, clicks>>

\* The cleanup of lines 47-51, run when the component unmounts: it closes the
\* socket its closure holds, if any.
CleanupState(ready) ==
    IF Closure.socket # Undefined /\ ready \in {"CONNECTING", "OPEN"} THEN "CLOSING" ELSE ready

\* The user leaves the page.
Unmount ==
    /\ mounted
    /\ socketEffectRan
    /\ mounted' = FALSE
    /\ wsState' = CleanupState(wsState)
    /\ UNCHANGED <<username, socketEffectRan, effectDep, socket, chatMessages, chatContent,
                   peerConnection, rendered, handlerClosure>>
    /\ UNCHANGED <<everOpen, sent, discarded, sendAttempts, closeFired>>
    /\ UNCHANGED <<ui, rtc, received, clicks>>

----
\* The WebSocket.

\* The connection is established. No onopen handler is registered.
WsOpen ==
    /\ wsState = "CONNECTING"
    /\ wsState' = "OPEN"
    /\ everOpen' = TRUE
    /\ UNCHANGED <<sent, discarded, sendAttempts, closeFired>>
    /\ UNCHANGED <<react, ui, rtc, received, clicks>>

\* The closing handshake starts (the server sent a Close frame).
WsClosing ==
    /\ wsState = "OPEN"
    /\ wsState' = "CLOSING"
    /\ UNCHANGED <<everOpen, sent, discarded, sendAttempts, closeFired>>
    /\ UNCHANGED <<react, ui, rtc, received, clicks>>

\* The connection ends (failed connect, remote close, transport error) and
\* onclose runs (lines 39-42): alert, then navigate("/") unmounts the page,
\* which runs the cleanup of lines 47-51 on the already closed socket.
WsClose ==
    /\ wsState \in {"CONNECTING", "OPEN", "CLOSING"}
    /\ wsState' = "CLOSED"
    /\ closeFired' = closeFired + 1
    /\ alerts' = Append(alerts, "WebSocket connection closed")
    /\ mounted' = FALSE
    /\ UNCHANGED <<username, socketEffectRan, effectDep, socket, chatMessages, chatContent,
                   peerConnection, rendered, handlerClosure>>
    /\ UNCHANGED <<everOpen, sent, discarded, sendAttempts, thrown>>
    /\ UNCHANGED <<rtc, received, clicks>>

----
\* The message router (lines 102-135) and the negotiation handlers (lines
\* 137-154), each up to its first await.

\* chatMessageHandler, lines 124-135.
chatMessageHandler(m) ==
    IF m.from # Undefined /\ IsString(m.data)
    THEN /\ chatMessages' = SetState(chatMessages, Prepend([from |-> m.from, content |-> m.data], chatMessages))
         /\ UNCHANGED alerts
    ELSE /\ alerts' = Append(alerts, "Invalid wsMessage format")
         /\ UNCHANGED chatMessages

\* handleSDPOffer (137-139), handleSDPAnswer (146-148), handleICECandidate
\* (151-153): return when the peer connection of the closure is null, else
\* call the first operation on it and await.
handleNegotiation(op, h, data) ==
    IF Closure.peerConnection = Null
    THEN UNCHANGED pending
    ELSE pending' = Append(pending, [op |-> op, arg |-> data, h |-> h])

\* An `error` envelope that is dropped without a word.
swallowError(m) == UNCHANGED alerts

\* case "error" (lines 116-118): alert(wsMessage.data).
caseError(m) == alerts' = Append(alerts, m.data)

\* An unknown type that is dropped without a word.
ignoreUnknownType(m) == UNCHANGED alerts

\* default (lines 119-120): alert("Invalid websocket message received").
caseDefault(m) == alerts' = Append(alerts, "Invalid websocket message received")

\* A router that also echoes every negotiation envelope into the chat log.
wsMessageHandlerEchoing(m) ==
    IF m.type = "chat" THEN chatMessageHandler(m) /\ UNCHANGED pending
    ELSE IF m.type \in {"sdp-offer", "sdp-answer", "ice"}
    THEN /\ handleNegotiation(IF m.type = "ice" THEN "addIceCandidate" ELSE "setRemoteDescription",
                              IF m.type = "sdp-offer" THEN "offer" ELSE IF m.type = "ice" THEN "ice" ELSE "answer",
                              m.data)
         /\ chatMessages' = SetState(chatMessages, Prepend([from |-> "system", content |-> m.type], chatMessages))
         /\ UNCHANGED alerts
    ELSE IF m.type = "error"
    THEN caseError(m) /\ UNCHANGED <<chatMessages, pending>>
    ELSE caseDefault(m) /\ UNCHANGED <<chatMessages, pending>>

\* wsMessageHandler, lines 102-122.
wsMessageHandler(m) ==
    IF m.type = "chat" THEN chatMessageHandler(m) /\ UNCHANGED pending
    ELSE IF m.type = "sdp-offer"
    THEN handleNegotiation("setRemoteDescription", "offer", m.data) /\ UNCHANGED <<chatMessages, alerts>>
    ELSE IF m.type = "sdp-answer"
    THEN handleNegotiation("setRemoteDescription", "answer", m.data) /\ UNCHANGED <<chatMessages, alerts>>
    ELSE IF m.type = "ice"
    THEN handleNegotiation("addIceCandidate", "ice", m.data) /\ UNCHANGED <<chatMessages, alerts>>
    ELSE IF m.type = "error"
    THEN caseError(m) /\ UNCHANGED <<chatMessages, pending>>
    ELSE caseDefault(m) /\ UNCHANGED <<chatMessages, pending>>

\* newSocket.onmessage, lines 34-37: a frame arrives on the open socket.
OnMessage(f) ==
    /\ wsState = "OPEN"
    /\ Len(received) < MaxRecv
    /\ received' = Append(received, [frame |-> f, peer |-> pc.created > 0, remote |-> pc.remote])
    /\ IF Parses(f)
       THEN wsMessageHandler(f) /\ UNCHANGED thrown
       ELSE thrown' = Append(thrown, "SyntaxError") /\ UNCHANGED <<chatMessages, alerts, pending>>
    /\ UNCHANGED <<username, mounted, socketEffectRan, effectDep, socket, chatContent,
                   peerConnection, rendered, handlerClosure>>
    /\ UNCHANGED <<wire, media, pc, clicks>>

----
\* The chat input (line 214) and sendChat (lines 156-170). Both run inside a
\* React event, which re-renders before the next event.

SetChatContent(t) ==
    /\ mounted
    /\ t # chatContent
    /\ chatContent' = t
    /\ rendered' = [socket |-> socket, peerConnection |-> peerConnection, chatContent |-> t]
    /\ UNCHANGED <<username, mounted, socketEffectRan, effectDep, socket, chatMessages,
                   peerConnection, handlerClosure>>
    /\ UNCHANGED <<wire, ui, rtc, received, clicks>>

SendChat ==
    /\ mounted
    /\ clicks < MaxSends
    /\ clicks' = clicks + 1
    /\ IF rendered.socket = Undefined
       THEN /\ alerts' = Append(alerts, "Socket was not mounted")
            /\ NoSend
            /\ UNCHANGED <<thrown, chatMessages, chatContent>>
       ELSE IF username = Null
       THEN /\ alerts' = Append(alerts, "name parameter not passed")
            /\ NoSend
            /\ UNCHANGED <<thrown, chatMessages, chatContent>>
       ELSE /\ SocketSend([type |-> "chat", data |-> rendered.chatContent])
            /\ UNCHANGED alerts
            /\ IF SendOutcome(wsState) = "threw"
               THEN UNCHANGED <<chatMessages, chatContent>>
               ELSE /\ chatMessages' = Prepend([from |-> username, content |-> rendered.chatContent], chatMessages)
                    /\ chatContent' = ""
    /\ rendered' = [socket |-> socket, peerConnection |-> peerConnection, chatContent |-> chatContent']
    /\ UNCHANGED <<username, mounted, socketEffectRan, effectDep, socket, peerConnection, handlerClosure>>
    /\ UNCHANGED <<wsState, everOpen, closeFired, rtc, received>>

----
\* Settlement of what is awaited, and the continuation of the awaiting
\* function.

\* `if (!myStream) return` (line 61), without the guard.
StreamUsableAlways(stream) == TRUE

\* `if (!myStream) return` (line 61): the setup goes on with a stream only.
StreamUsable(stream) == stream # Undefined

\* getUserMedia settles (lines 88-100), then lines 61-83 of the setup.
SettleMedia(rest, ok) ==
    LET stream == IF ok THEN "stream" ELSE Undefined IN
    /\ media' = IF ok THEN "acquired" ELSE "failed"
    /\ alerts' = IF ok THEN alerts ELSE Append(alerts, "Could not access media devices")
    /\ pending' = rest
    /\ IF StreamUsable(stream)
       THEN /\ pc' = [pc EXCEPT !.created = @ + 1]
            /\ peerConnection' = SetState(peerConnection, PC)
       ELSE UNCHANGED <<pc, peerConnection>>
    /\ NoSend
    /\ UNCHANGED thrown

\* An awaited operation of the peer connection rejects: the handler and
\* wsMessageHandler reject in turn, and nothing catches the rejection.
Rejected(p, rest) ==
    /\ thrown' = Append(thrown, p.op)
    /\ pending' = rest
    /\ NoSend
    /\ UNCHANGED <<media, alerts, peerConnection>>

\* setRemoteDescription (lines 139, 148): an offer is accepted in the states
\* stable and have-remote-offer, an answer only in have-local-offer.
SettleSRD(p, rest) ==
    IF p.arg = ValidOffer /\ pc.signaling \in {"stable", "have-remote-offer"}
    THEN /\ pc' = [pc EXCEPT !.remote = "offer", !.signaling = "have-remote-offer"]
         /\ pending' = IF p.h = "offer"
                       THEN Append(rest, [op |-> "createAnswer", arg |-> Undefined, h |-> "offer"])
                       ELSE rest
         /\ NoSend
         /\ UNCHANGED <<media, alerts, thrown, peerConnection>>
    ELSE Rejected(p, rest) /\ UNCHANGED pc

\* createAnswer (line 140).
SettleCreateAnswer(p, rest) ==
    IF pc.signaling = "have-remote-offer"
    THEN /\ pending' = Append(rest, [op |-> "setLocalDescription", arg |-> LocalAnswer, h |-> "offer"])
         /\ NoSend
         /\ UNCHANGED <<media, alerts, thrown, pc, peerConnection>>
    ELSE Rejected(p, rest) /\ UNCHANGED pc

\* setLocalDescription (line 141), then socket?.send of the answer (line 143).
\* Candidate gathering starts: the peer will fire icecandidate events.
SettleSLD(p, rest) ==
    IF pc.signaling = "have-remote-offer"
    THEN /\ pc' = [pc EXCEPT !.local = "answer", !.signaling = "stable"]
         /\ pending' = rest \o <<[op |-> "icecandidate", arg |-> LocalCandidate, h |-> "peer"],
                                 [op |-> "icecandidate", arg |-> Null, h |-> "peer"]>>
         /\ IF Closure.socket # Undefined
            THEN SocketSend([type |-> "sdp-answer", data |-> p.arg])
            ELSE NoSend /\ UNCHANGED thrown
         /\ UNCHANGED <<media, alerts, peerConnection>>
    ELSE Rejected(p, rest) /\ UNCHANGED pc

\* addIceCandidate (line 153): rejected while there is no remote description.
SettleAddIce(p, rest) ==
    IF pc.remote # "none"
    THEN /\ pc' = [pc EXCEPT !.candidates = Append(@, p.arg),
                             !.applied = Append(@, [candidate |-> p.arg, remote |-> TRUE])]
         /\ pending' = rest
         /\ NoSend
         /\ UNCHANGED <<media, alerts, thrown, peerConnection>>
    ELSE /\ Rejected(p, rest)
         /\ pc' = [pc EXCEPT !.applied = Append(@, [candidate |-> p.arg, remote |-> FALSE])]

\* peer.onicecandidate (lines 70-74), with the socket of the setup effect.
SettleIceEvent(p, rest) ==
    /\ pending' = rest
    /\ IF p.arg # Null
       THEN SocketSend([type |-> "ice", data |-> p.arg])
       ELSE NoSend /\ UNCHANGED thrown
    /\ UNCHANGED <<media, alerts, pc, peerConnection>>

\* The event loop delivers the outcome of pending[i]. The operations of the
\* peer connection and its events complete in the order they were issued.
Settle(i, ok) ==
    LET p == pending[i]
        rest == RemoveAt(pending, i)
    IN
    /\ i \in 1..Len(pending)
    /\ p.op = "getUserMedia" \/ (ok /\ \A j \in 1..(i - 1) : pending[j].op = "getUserMedia")
    /\ IF p.op = "getUserMedia" THEN SettleMedia(rest, ok)
       ELSE IF p.op = "setRemoteDescription" THEN SettleSRD(p, rest)
       ELSE IF p.op = "createAnswer" THEN SettleCreateAnswer(p, rest)
       ELSE IF p.op = "setLocalDescription" THEN SettleSLD(p, rest)
       ELSE IF p.op = "addIceCandidate" THEN SettleAddIce(p, rest)
       ELSE SettleIceEvent(p, rest)
    /\ UNCHANGED <<username, mounted, socketEffectRan, effectDep, socket, chatMessages, chatContent,
                   rendered, handlerClosure>>
    /\ UNCHANGED <<wsState, everOpen, closeFired, received, clicks>>

----
Next ==
    \/ SocketEffect
    \/ Render
    \/ WebRTCEffect
    \/ Unmount
    \/ WsOpen
    \/ WsClosing
    \/ WsClose
    \/ \E f \in Frames : OnMessage(f)
    \/ \E t \in {"hey"} : SetChatContent(t)
    \/ SendChat
    \/ \E i \in 1..Len(pending), ok \in BOOLEAN : Settle(i, ok)

Spec == Init /\ [][Next]_vars

TypeOK ==
    /\ username \in {"alice", Null}
    /\ mounted \in BOOLEAN
    /\ socket \in {Undefined, WS}
    /\ peerConnection \in {Null, PC}
    /\ wsState \in {"none", "CONNECTING", "OPEN", "CLOSING", "CLOSED"}
    /\ media \in {"idle", "pending", "acquired", "failed"}
    /\ Len(received) <= MaxRecv
    /\ clicks <= MaxSends

----
\* Properties.

Last(s) == s[Len(s)]

\* This step delivered a frame of type t to onmessage.
Handles(t) == Len(received') = Len(received) + 1 /\ Last(received').frame.type = t

\* The frames of type t received while a peer connection existed.
GotByPeer(t) == SelectSeq(received, LAMBDA r : r.frame.type = t /\ r.peer)

\* The calls of socket.send for envelopes of type t.
Attempts(t) == SelectSeq(sendAttempts, LAMBDA a : a.type = t)

\* The operations of the peer connection that are in flight.
InFlight == SelectSeq(pending, IsPcOp)

\* C1: no received candidate has been applied to the peer connection
\* (addIceCandidate) while the peer connection had no remote description.
C1_NoCandidateWithoutRemote ==
    \A k \in 1..Len(pc.applied) : pc.applied[k].remote

\* A candidate arrived at a peer connection without remote description, its
\* handling is over, and it was not applied.
C1_Witness ==
    /\ \E k \in 1..Len(received) :
          /\ received[k].frame.type = "ice"
          /\ received[k].peer
          /\ received[k].remote = "none"
    /\ pc.created = 1
    /\ pc.remote = "none"
    /\ InFlight = <<>>
    /\ pc.applied = <<>>

\* C2: every candidate received by the peer connection is kept (queued for
\* application or applied), in the order of receipt, none lost.
C2_CandidatesKeptInOrder ==
    LET got == GotByPeer("ice")
        queued == SelectSeq(pending, LAMBDA p : p.op = "addIceCandidate")
        kept == pc.candidates \o [k \in 1..Len(queued) |-> queued[k].arg]
    IN /\ Len(kept) = Len(got)
       /\ \A k \in 1..Len(got) : kept[k] = got[k].frame.data

\* C4: once the handling of a valid offer received in AwaitingRemote (channel
\* open, media acquired, peer connection built) is over, the offer is the
\* remote description, the answer the local one, and exactly one answer
\* envelope was sent.
C4_OfferAnswered ==
    ( /\ Len(GotByPeer("sdp-offer")) = 1
      /\ GotByPeer("sdp-offer")[1].frame.data = ValidOffer
      /\ GotByPeer("sdp-answer") = <<>>
      /\ wsState = "OPEN"
      /\ InFlight = <<>> )
    => /\ pc.remote = "offer"
       /\ pc.local = "answer"
       /\ Len(SelectSeq(sent, LAMBDA e : e.type = "sdp-answer")) = 1

\* C6: the controller never offers, so every answer envelope arrives outside
\* Offering: handling it sets no remote description and starts no operation
\* of the peer connection, and a well-formed chat envelope received after it
\* is still appended to the log.
C6_AnswerRejected ==
    [][ /\ Handles("sdp-answer") =>
             /\ pc' = pc
             /\ pending' = pending
             /\ peerConnection' = peerConnection
             /\ chatMessages' = chatMessages
        /\ ( /\ Handles("chat")
             /\ mounted
             /\ Last(received').frame.from # Undefined
             /\ IsString(Last(received').frame.data)
             /\ \E k \in 1..Len(received) : received[k].frame.type = "sdp-answer" ) =>
             chatMessages' = <<[from |-> Last(received').frame.from,
                                content |-> Last(received').frame.data]>> \o chatMessages
        /\ pc'.remote # "answer" ]_vars

\* An answer arrived right after an offer at a controller that owns a peer
\* connection, and the peer connection is as it was built.
C6_Witness ==
    /\ Len(received) = 2
    /\ received[1].frame.type = "sdp-offer"
    /\ received[2].frame.type = "sdp-answer"
    /\ received[1].peer
    /\ pc = [NoPeer EXCEPT !.created = 1]
    /\ pending = <<>>

\* C7: a peer connection exists only if the channel has reported itself open
\* and local media has been acquired, and at most one is built per channel.
C7_SessionOnlyWhenReady ==
    /\ pc.created > 0 => everOpen /\ media = "acquired"
    /\ pc.created <= 1

\* C8: after local media acquisition failed, the failure has been reported,
\* no peer connection has been built and no candidate or answer envelope was
\* handed to the socket.
C8_MediaFailureAborts ==
    media = "failed" =>
        /\ \E k \in 1..Len(alerts) : alerts[k] = "Could not access media devices"
        /\ pc.created = 0
        /\ peerConnection = Null
        /\ Attempts("ice") = <<>>
        /\ Attempts("sdp-answer") = <<>>

\* Media acquisition failed, the page was re-rendered, and an offer was
\* received on the open channel afterwards or before.
C8_Witness ==
    /\ media = "failed"
    /\ pending = <<>>
    /\ rendered = Snapshot
    /\ \E k \in 1..Len(received) : received[k].frame.type = "sdp-offer"

\* C9: every call of send while the channel is not open transmits nothing and
\* raises an error to its caller.
C9_SendWhileNotOpenFails ==
    \A k \in 1..Len(sendAttempts) :
        sendAttempts[k].ready # "OPEN" => sendAttempts[k].outcome = "threw"

\* C10: a chat send that constructs its message puts it at the front of the
\* log, whether or not the transmission succeeds.
C10_SendAppends ==
    [][ ( /\ Len(sendAttempts') = Len(sendAttempts) + 1
          /\ Last(sendAttempts').type = "chat" ) =>
        chatMessages' = <<[from |-> username, content |-> rendered.chatContent]>> \o chatMessages ]_vars

\* This step received a well-formed chat envelope on the mounted page.
RemoteAppend ==
    /\ Handles("chat")
    /\ mounted
    /\ Last(received').frame.from # Undefined
    /\ Last(received').frame.data \in ChatTexts

\* This step ran a chat send whose message was constructed and whose
\* socket.send returned.
LocalAppend ==
    /\ Len(sendAttempts') = Len(sendAttempts) + 1
    /\ Last(sendAttempts').type = "chat"
    /\ Last(sendAttempts').outcome # "threw"

\* C11: every message appended by a local send or by the receipt of a
\* well-formed chat envelope goes to the front of the log and no other step
\* changes the log, so the log is the appended messages, newest first, none
\* lost, duplicated or reordered.
C11_LogNewestFirst ==
    [][ IF RemoteAppend
        THEN chatMessages' = <<[from |-> Last(received').frame.from,
                                content |-> Last(received').frame.data]>> \o chatMessages
        ELSE IF LocalAppend
        THEN chatMessages' = <<[from |-> username, content |-> rendered.chatContent]>> \o chatMessages
        ELSE chatMessages' = chatMessages ]_vars

\* Local and remote messages were interleaved: a remote message, the local
\* one, then another remote one.
C11_Witness ==
    /\ Len(chatMessages) = 3
    /\ chatMessages[1].from = "bob"
    /\ chatMessages[2].from = "alice"
    /\ chatMessages[2].content = "hey"
    /\ chatMessages[3].from = "bob"

\* A frame of type t was received before this step.
Earlier(t) == \E k \in 1..Len(received) : received[k].frame.type = t

\* The negotiation session and the socket are left as they were.
SessionUntouched ==
    /\ pc' = pc
    /\ pending' = pending
    /\ peerConnection' = peerConnection
    /\ media' = media

NothingSent ==
    /\ sent' = sent
    /\ discarded' = discarded
    /\ sendAttempts' = sendAttempts

\* C12: an envelope of an unrecognized type is reported by an alert; the
\* chat log and the negotiation session are unchanged, nothing is sent, the
\* channel stays as it was, and a well-formed chat envelope received after it
\* is still appended.
C12_UnknownTypeReported ==
    [][ /\ Handles("ping") =>
             /\ alerts' = Append(alerts, "Invalid websocket message received")
             /\ chatMessages' = chatMessages
             /\ SessionUntouched
             /\ NothingSent
             /\ thrown' = thrown
             /\ wsState' = wsState
             /\ mounted' = mounted
        /\ (RemoteAppend /\ Earlier("ping")) =>
             chatMessages' = <<[from |-> Last(received').frame.from,
                                content |-> Last(received').frame.data]>> \o chatMessages ]_vars

\* A `ping` envelope was reported and the chat envelope after it was
\* appended.
C12_Witness ==
    /\ Len(received) = 2
    /\ received[1].frame.type = "ping"
    /\ received[2].frame = [type |-> "chat", from |-> "bob", data |-> "hi"]
    /\ alerts = <<"Invalid websocket message received">>
    /\ chatMessages = <<[from |-> "bob", content |-> "hi"]>>

\* The peer connection has been sent the same candidate twice.
DuplicateCandidate ==
    \E i, j \in 1..Len(received) :
        /\ i < j
        /\ received[i].frame.type = "ice"
        /\ received[j].frame.type = "ice"
        /\ received[i].frame.data = received[j].frame.data
        /\ received[i].peer

HandlesNegotiation == Handles("sdp-offer") \/ Handles("sdp-answer") \/ Handles("ice")

\* C14: a negotiation envelope handled while no session exists is a no-op
\* that is reported: the session is unchanged, nothing is thrown, and an
\* alert is raised.
C14_NoSessionReported ==
    [][ (HandlesNegotiation /\ pc.created = 0) =>
          /\ SessionUntouched
          /\ thrown' = thrown
          /\ Len(alerts') = Len(alerts) + 1 ]_vars

\* C15: once the channel has closed, onclose has run exactly once, the peer
\* connection, if one was built, is closed, and the local stream is no
\* longer live.
C15_CloseReleases ==
    wsState = "CLOSED" =>
        /\ closeFired = 1
        /\ pc.created > 0 => pc.signaling = "closed"
        /\ media # "acquired"

\* C16: an `error` envelope is surfaced by an alert of its text and changes
\* nothing else: the channel, the negotiation session and the chat log are as
\* they were, nothing is sent, and afterwards a well-formed chat envelope is
\* still appended and a chat send on the open channel still appends and
\* transmits.
C16_ErrorOnlySurfaced ==
    [][ /\ Handles("error") =>
             /\ alerts' = Append(alerts, Last(received').frame.data)
             /\ wsState' = wsState
             /\ mounted' = mounted
             /\ chatMessages' = chatMessages
             /\ SessionUntouched
             /\ NothingSent
             /\ thrown' = thrown
        /\ (RemoteAppend /\ Earlier("error")) =>
             chatMessages' = <<[from |-> Last(received').frame.from,
                                content |-> Last(received').frame.data]>> \o chatMessages
        /\ (LocalAppend /\ Earlier("error") /\ wsState = "OPEN") =>
             /\ chatMessages' = <<[from |-> username, content |-> rendered.chatContent]>> \o chatMessages
             /\ sent' = Append(sent, [type |-> "chat", data |-> rendered.chatContent]) ]_vars

\* An error envelope was alerted; after it a chat envelope was appended and
\* a local message was appended and transmitted.
C16_Witness ==
    /\ Len(received) = 2
    /\ received[1].frame.type = "error"
    /\ received[2].frame = [type |-> "chat", from |-> "bob", data |-> "hi"]
    /\ alerts = <<"room full">>
    /\ chatMessages = <<[from |-> "alice", content |-> "hey"], [from |-> "bob", content |-> "hi"]>>
    /\ sent = <<[type |-> "chat", data |-> "hey"]>>
    /\ wsState = "OPEN"

\* This step ran sendChat.
ChatSendStep == clicks' = clicks + 1

\* C18: chat traffic leaves the negotiation session as it was, and the
\* handling of an offer, an answer or a candidate leaves the chat log as it
\* was.
C18_ChatAndNegotiationSeparate ==
    [][ /\ (Handles("chat") \/ ChatSendStep) => SessionUntouched
        /\ HandlesNegotiation => chatMessages' = chatMessages ]_vars

\* With a peer connection built, a chat envelope was appended, a local
\* message was sent and an offer was handled: the session is as it was built
\* and the log holds both messages.
C18_Witness ==
    /\ Len(received) = 2
    /\ received[1].frame = [type |-> "chat", from |-> "bob", data |-> "hi"]
    /\ received[1].peer
    /\ received[2].frame.type = "sdp-offer"
    /\ clicks = 1
    /\ Len(chatMessages) = 2
    /\ pc = [NoPeer EXCEPT !.created = 1]
    /\ peerConnection = PC

\* A chat frame without `from` or whose data is not text.
Malformed(f) == f.type = "chat" /\ (f.from = Undefined \/ f.data = NonText)

\* C19: a chat envelope that lacks `from` or whose data is not text is
\* reported by an alert and dropped: the log, the session and the channel
\* are as they were, nothing is thrown, and a well-formed chat envelope
\* received after it is still appended.
C19_MalformedChatDropped ==
    [][ /\ (Handles("chat") /\ Malformed(Last(received').frame)) =>
             /\ alerts' = Append(alerts, "Invalid wsMessage format")
             /\ chatMessages' = chatMessages
             /\ SessionUntouched
             /\ thrown' = thrown
             /\ wsState' = wsState
             /\ mounted' = mounted
        /\ (RemoteAppend /\ \E k \in 1..Len(received) : Malformed(received[k].frame)) =>
             chatMessages' = <<[from |-> Last(received').frame.from,
                                content |-> Last(received').frame.data]>> \o chatMessages ]_vars

\* A chat envelope whose data is not text was reported and left out of the
\* log, and the well-formed one after it was appended.
C19_Witness ==
    /\ Len(received) = 2
    /\ received[1].frame = [type |-> "chat", from |-> "bob", data |-> NonText]
    /\ received[2].frame = [type |-> "chat", from |-> "bob", data |-> "hi"]
    /\ alerts = <<"Invalid wsMessage format">>
    /\ chatMessages = <<[from |-> "bob", content |-> "hi"]>>

\* C20: an offer, an answer or a candidate that arrives after the peer
\* connection was created and rendered makes the handler call the
\* negotiation operation on that peer connection.
C20_HandlerUsesCurrentSession ==
    [][ ( /\ HandlesNegotiation
          /\ peerConnection = PC
          /\ rendered.peerConnection = PC ) =>
        /\ Len(pending') = Len(pending) + 1
        /\ IsPcOp(Last(pending'))
        /\ Last(pending').arg = Last(received').frame.data ]_vars

====
